---- MODULE Spec2Model ----
(***************************************************************************)
(* A model of google/cloud/firestore_v1beta1/client.py: the Client's batch *)
(* retrieval generator (get_all and its helpers), the write options        *)
(* (write_option and the three modify_write methods) and the path          *)
(* resolution of collection() / document().                                *)
(*                                                                         *)
(* Python values are records tagged with their type, so that None, a       *)
(* snapshot, an exception and a protobuf message are all distinct values.  *)
(***************************************************************************)
EXTENDS Integers, Sequences, FiniteSets, TLC

VARIABLES
    \* ---- Client.get_all: the generator and what it talks to ----
    gen_state,                 \* position of the generator returned by get_all
    references,                \* argument: the document references
    field_paths,               \* argument: the projection (None or field paths)
    transaction,               \* argument: None or the Transaction object
    write_pbs,                 \* Transaction._write_pbs: number of queued writes
    document_paths,            \* local of get_all
    reference_map,             \* local of get_all
    response_iterator,         \* local of get_all: the transport's stream and position
    requests,                  \* batch_get_documents calls seen by the transport
    yielded,                   \* what the generator has yielded so far
    gen_error,                 \* the exception that ended the generator, or None
    firestore_api_internal,    \* Client._firestore_api_internal
    database_string_internal,  \* Client._database_string_internal
    rpc_metadata_internal,     \* Client._rpc_metadata_internal
    \* ---- Client.write_option and WriteOption.modify_write ----
    opt_state,                 \* position of the write-option scenario
    kwargs,                    \* argument of write_option
    option,                    \* the WriteOption returned, or None
    opt_error,                 \* the exception raised by the last call, or None
    write_pb,                  \* the Write protobuf: its current_document precondition
    no_create_msg,             \* how modify_write was given no_create_msg
    \* ---- Client.collection / Client.document ----
    resolved,                  \* the collection()/document() calls made so far
    \* ---- two get_all calls on one client, running concurrently ----
    calls                      \* the frame of each call's generator

getAllVars == <<gen_state, references, field_paths, transaction, write_pbs,
                document_paths, reference_map, response_iterator, requests,
                yielded, gen_error, firestore_api_internal,
                database_string_internal, rpc_metadata_internal>>
optionVars == <<opt_state, kwargs, option, opt_error, write_pb, no_create_msg>>
pathVars == <<resolved>>
concVars == <<calls>>
vars == <<getAllVars, optionVars, pathVars, concVars>>

(***************************************************************************)
(* Bounds of the model.                                                    *)
(***************************************************************************)
MaxRefs == 3
MaxResponses == 2
MaxWrites == 1
MaxStrLen == 2
MaxArgs == 2
MaxConcRefs == 1
MaxConcResponses == 1

(***************************************************************************)
(* Python values.                                                          *)
(***************************************************************************)
None == [type |-> "NoneType"]

SeqsUpTo(S, n) == UNION {[1..k -> S] : k \in 0..n}

(***************************************************************************)
(* Module constants of client.py.                                          *)
(***************************************************************************)
DEFAULT_DATABASE == "(default)"
_BAD_OPTION_ERR == "Exactly one of create_if_missing, last_update_time and exists must be provided."
_BAD_DOC_TEMPLATE == "Document {!r} appeared in response but was not present among references"
_BAD_RESULT_ERR == "BatchGetDocumentsResponse.result (a oneof) had a field other than found or missing set, or was unset"

ValueError(args) == [type |-> "ValueError", args |-> args]
TypeError(args) == [type |-> "TypeError", args |-> args]

(***************************************************************************)
(* The data the batch retrieval works on.                                  *)
(***************************************************************************)
Project == "proj"

\* firestore_client.FirestoreClient.database_root_path(project, database)
database_root_path(project, database) ==
    <<"projects", project, "databases", database>>

\* Relative document paths a caller may ask for or a transport may name.
DocIds == {"users/alice", "users/bob"}

\* DocumentReference._document_path: the fully-qualified path.
DocumentPath(doc_id) ==
    database_root_path(Project, DEFAULT_DATABASE) \o <<"documents", doc_id>>

FullPaths == {DocumentPath(d) : d \in DocIds}

\* A DocumentReference object: obj is the object's identity, so that two
\* references to one document are distinct objects with one path.
DocumentReference(doc_id, obj) ==
    [type |-> "DocumentReference", _document_path |-> DocumentPath(doc_id),
     obj |-> obj]

\* The reference lists a caller may pass: the i-th is object number i.
ReferenceLists ==
    {[i \in DOMAIN ids |-> DocumentReference(ids[i], i)] :
        ids \in SeqsUpTo(DocIds, MaxRefs)}

\* A Python list.
List(items) == [type |-> "list", items |-> items]

\* A Python string, given by its text or by the segments of a path.
Str(s) == [type |-> "str", s |-> s]

FieldPathArgs == {None, List(<<"name">>)}

\* The one Transaction object of the model; its queued writes are write_pbs.
TheTransaction == [type |-> "Transaction", id |-> "txn-1"]
TransactionArgs == {None, TheTransaction}

\* Raw (encoded) document fields, as the Document protobuf carries them.
RawFields ==
    {[name |-> [string_value |-> "Alice"]],
     [name |-> [string_value |-> "Bob"], age |-> [integer_value |-> 7]]}

\* BatchGetDocumentsResponse messages: result is the field of the oneof that
\* is set, if any ("unset" when none is, "other" for a field of the oneof
\* that is neither found nor missing).
FoundResponses ==
    {[result |-> "found",
      found |-> [name |-> p, fields |-> f, create_time |-> 1, update_time |-> 2],
      read_time |-> 3] : p \in FullPaths, f \in RawFields}
MissingResponses ==
    {[result |-> "missing", missing |-> p, read_time |-> 3] : p \in FullPaths}
MalformedResponses ==
    {[result |-> "unset", transaction |-> "txn-1"],
     [result |-> "other", read_time |-> 3]}
Responses == FoundResponses \cup MissingResponses \cup MalformedResponses

ResponseStreams == SeqsUpTo(Responses, MaxResponses)

\* protobuf WhichOneof('result'): the name of the field set, or None.
WhichOneof(get_doc_response) ==
    IF get_doc_response.result = "unset" THEN None
    ELSE Str(get_doc_response.result)

(***************************************************************************)
(* Collaborators outside client.py.                                        *)
(***************************************************************************)
\* _helpers.decode_dict: the decoded value of every field.
decode_value(value_pb) ==
    IF "string_value" \in DOMAIN value_pb THEN value_pb.string_value
    ELSE value_pb.integer_value

decode_dict(value_fields, client) ==
    [k \in DOMAIN value_fields |-> decode_value(value_fields[k])]

ReadAfterWriteError ==
    [type |-> "ReadAfterWriteError", args |-> <<"read after write is not allowed">>]

\* _helpers.get_transaction_id for a read: None without a transaction, the
\* transaction's id otherwise, unless the transaction has queued writes.
get_transaction_id(txn, queued) ==
    IF txn = None THEN [raised |-> FALSE, value |-> None]
    ELSE IF queued > 0 THEN [raised |-> TRUE, error |-> ReadAfterWriteError]
    ELSE [raised |-> FALSE, value |-> Str(txn.id)]

\* _helpers.metadata_with_prefix(prefix)
metadata_with_prefix(prefix) ==
    List(<<<<"google-cloud-resource-prefix", prefix>>>>)

\* types.DocumentMask(field_paths=...)
DocumentMask(fps) == [type |-> "DocumentMask", field_paths |-> fps]

\* document.DocumentSnapshot(reference, data, exists, read_time, create_time,
\* update_time)
DocumentSnapshot(reference, data, exists, read_time, create_time, update_time) ==
    [type |-> "DocumentSnapshot", reference |-> reference, data |-> data,
     exists |-> exists, read_time |-> read_time, create_time |-> create_time,
     update_time |-> update_time]

GapicApi == [type |-> "FirestoreClient"]

(***************************************************************************)
(* Helpers of client.py.                                                   *)
(***************************************************************************)
\* _make_firestore_api(client)
_make_firestore_api == GapicApi

\* _reference_info(references): the loop, left to right.
RECURSIVE ReferenceInfoLoop(_, _, _, _)
ReferenceInfoLoop(refs, i, paths, map) ==
    IF i > Len(refs) THEN <<paths, map>>
    ELSE LET reference == refs[i]
             doc_path == reference._document_path
         IN ReferenceInfoLoop(
                refs, i + 1, Append(paths, doc_path),
                [p \in DOMAIN map \cup {doc_path} |->
                    IF p = doc_path THEN reference ELSE map[p]])

\* A variant of _reference_info that keeps the first reference of a path
\* (reference_map.setdefault) instead of the last.
RECURSIVE FirstWinsLoop(_, _, _, _)
FirstWinsLoop(refs, i, paths, map) ==
    IF i > Len(refs) THEN <<paths, map>>
    ELSE LET reference == refs[i]
             doc_path == reference._document_path
         IN FirstWinsLoop(
                refs, i + 1, Append(paths, doc_path),
                [p \in DOMAIN map \cup {doc_path} |->
                    IF p \in DOMAIN map THEN map[p] ELSE reference])

_reference_info_first_wins(refs) == FirstWinsLoop(refs, 1, <<>>, <<>>)

\* _reference_info(references)
_reference_info(refs) == ReferenceInfoLoop(refs, 1, <<>>, <<>>)

\* A variant of _get_reference that looks the path up with dict.get: an
\* unknown path gives None instead of an exception.
_get_reference_lenient(document_path, map) ==
    IF document_path \in DOMAIN map
    THEN [raised |-> FALSE, value |-> map[document_path]]
    ELSE [raised |-> FALSE, value |-> None]

\* _get_reference(document_path, reference_map)
_get_reference(document_path, map) ==
    IF document_path \in DOMAIN map
    THEN [raised |-> FALSE, value |-> map[document_path]]
    ELSE [raised |-> TRUE,
          error |-> ValueError(<<_BAD_DOC_TEMPLATE, document_path>>)]

\* A variant of the found branch that passes the document's update time as
\* the read time and its create time as the update time.
ParseFound_times_shifted(get_doc_response, map, client) ==
    LET reference == _get_reference(get_doc_response.found.name, map) IN
    IF reference.raised THEN reference
    ELSE [raised |-> FALSE,
          value |-> DocumentSnapshot(
              reference.value,
              decode_dict(get_doc_response.found.fields, client),
              TRUE,
              get_doc_response.found.update_time,
              get_doc_response.found.create_time,
              get_doc_response.found.create_time)]

\* The part of _parse_batch_get for a found document.
ParseFound(get_doc_response, map, client) ==
    LET reference == _get_reference(get_doc_response.found.name, map) IN
    IF reference.raised THEN reference
    ELSE [raised |-> FALSE,
          value |-> DocumentSnapshot(
              reference.value,
              decode_dict(get_doc_response.found.fields, client),
              TRUE,
              get_doc_response.read_time,
              get_doc_response.found.create_time,
              get_doc_response.found.update_time)]

\* A variant of _parse_batch_get whose last branch returns None instead of
\* raising.
_parse_batch_get_no_else(get_doc_response, map, client) ==
    LET result_type == WhichOneof(get_doc_response) IN
    IF result_type = Str("found") THEN ParseFound(get_doc_response, map, client)
    ELSE [raised |-> FALSE, value |-> None]

\* A variant of _parse_batch_get that treats a missing document as an error.
_parse_batch_get_missing_raises(get_doc_response, map, client) ==
    LET result_type == WhichOneof(get_doc_response) IN
    IF result_type = Str("found") THEN ParseFound(get_doc_response, map, client)
    ELSE [raised |-> TRUE, error |-> ValueError(<<_BAD_RESULT_ERR>>)]

\* _parse_batch_get(get_doc_response, reference_map, client)
_parse_batch_get(get_doc_response, map, client) ==
    LET result_type == WhichOneof(get_doc_response) IN
    IF result_type = Str("found") THEN ParseFound(get_doc_response, map, client)
    ELSE IF result_type = Str("missing") THEN
        [raised |-> FALSE, value |-> None]
    ELSE [raised |-> TRUE, error |-> ValueError(<<_BAD_RESULT_ERR>>)]

\* _get_doc_mask(field_paths)
_get_doc_mask(fps) == IF fps = None THEN None ELSE DocumentMask(fps)


(***************************************************************************)
(* Client.get_all. It is a generator function: the call only creates the   *)
(* generator, the body runs from the first next() on, up to the next yield *)
(* (or to the exception or the end of the stream that finishes it).        *)
(***************************************************************************)
\* The lazy getters: the cached value once set, else the value computed.
_firestore_api(cached) == IF cached = None THEN _make_firestore_api ELSE cached

_database_string(cached) ==
    IF cached = None THEN Str(database_root_path(Project, DEFAULT_DATABASE))
    ELSE cached

_rpc_metadata(cached, db_string) ==
    IF cached = None THEN metadata_with_prefix(db_string) ELSE cached

\* A variant of the call statement that makes the call whatever the
\* evaluation of the transaction id gave.
BatchGetCall_unchecked(db_string, paths, mask, transaction_id, metadata) ==
    [raised |-> FALSE,
     request |-> [database |-> db_string, documents |-> paths, mask |-> mask,
                  transaction |-> IF transaction_id.raised THEN None
                                  ELSE transaction_id.value,
                  metadata |-> metadata]]

\* The call statement self._firestore_api.batch_get_documents(...): its
\* arguments are evaluated first, left to right, and the call is made only if
\* none of them raised.
BatchGetCall(db_string, paths, mask, transaction_id, metadata) ==
    IF transaction_id.raised
    THEN [raised |-> TRUE, error |-> transaction_id.error]
    ELSE [raised |-> FALSE,
          request |-> [database |-> db_string, documents |-> paths,
                       mask |-> mask, transaction |-> transaction_id.value,
                       metadata |-> metadata]]

\* A variant of the loop that yields only the documents that exist.
ForLoopStep_skip_none(iterator, map, out) ==
    IF iterator.pos >= Len(iterator.items)
    THEN [state |-> "finished", iterator |-> iterator, yielded |-> out,
          error |-> None]
    ELSE LET get_doc_response == iterator.items[iterator.pos + 1]
             advanced == [iterator EXCEPT !.pos = iterator.pos + 1]
             parsed == _parse_batch_get(get_doc_response, map, None)
         IN IF parsed.raised
            THEN [state |-> "raised", iterator |-> advanced, yielded |-> out,
                  error |-> parsed.error]
            ELSE [state |-> "suspended", iterator |-> advanced,
                  yielded |-> IF parsed.value = None THEN out
                              ELSE Append(out, parsed.value),
                  error |-> None]

\* One turn of "for get_doc_response in response_iterator: yield ...": the
\* next response is taken from the stream, if there is one, and parsed.
ForLoopStep(iterator, map, out) ==
    IF iterator.pos >= Len(iterator.items)
    THEN [state |-> "finished", iterator |-> iterator, yielded |-> out,
          error |-> None]
    ELSE LET get_doc_response == iterator.items[iterator.pos + 1]
             advanced == [iterator EXCEPT !.pos = iterator.pos + 1]
             parsed == _parse_batch_get(get_doc_response, map, None)
         IN IF parsed.raised
            THEN [state |-> "raised", iterator |-> advanced, yielded |-> out,
                  error |-> parsed.error]
            ELSE [state |-> "suspended", iterator |-> advanced,
                  yielded |-> Append(out, parsed.value), error |-> None]

\* client.get_all(references, field_paths, transaction): returns a generator.
Client_get_all(refs, fps, txn) ==
    /\ gen_state = "none"
    /\ gen_state' = "created"
    /\ references' = refs
    /\ field_paths' = fps
    /\ transaction' = txn
    /\ UNCHANGED <<write_pbs, document_paths, reference_map, response_iterator,
                   requests, yielded, gen_error, firestore_api_internal,
                   database_string_internal, rpc_metadata_internal>>
    /\ UNCHANGED <<optionVars, pathVars, concVars>>

\* The first next(): lines 331-336, then the first turn of the loop on the
\* stream the transport answers with.
Generator_start ==
    /\ gen_state = "created"
    /\ LET info == _reference_info(references)
           mask == _get_doc_mask(field_paths)
           api == _firestore_api(firestore_api_internal)
           db_string == _database_string(database_string_internal)
           transaction_id == get_transaction_id(transaction, write_pbs)
           metadata == _rpc_metadata(rpc_metadata_internal, db_string)
           call == BatchGetCall(db_string, info[1], mask, transaction_id, metadata)
       IN /\ document_paths' = info[1]
          /\ reference_map' = info[2]
          /\ firestore_api_internal' = api
          /\ database_string_internal' = db_string
          /\ IF call.raised
             THEN /\ gen_state' = "raised"
                  /\ gen_error' = call.error
                  /\ UNCHANGED <<rpc_metadata_internal, requests,
                                 response_iterator, yielded>>
             ELSE /\ rpc_metadata_internal' = metadata
                  /\ requests' = Append(requests, call.request)
                  /\ \E stream \in ResponseStreams :
                        LET step == ForLoopStep([items |-> stream, pos |-> 0],
                                                info[2], yielded)
                        IN /\ gen_state' = step.state
                           /\ response_iterator' = step.iterator
                           /\ yielded' = step.yielded
                           /\ gen_error' = step.error
    /\ UNCHANGED <<references, field_paths, transaction, write_pbs>>
    /\ UNCHANGED <<optionVars, pathVars, concVars>>

\* A later next(): the generator resumes after its yield.
Generator_resume ==
    /\ gen_state = "suspended"
    /\ LET step == ForLoopStep(response_iterator, reference_map, yielded)
       IN /\ gen_state' = step.state
          /\ response_iterator' = step.iterator
          /\ yielded' = step.yielded
          /\ gen_error' = step.error
    /\ UNCHANGED <<references, field_paths, transaction, write_pbs,
                   document_paths, reference_map, requests,
                   firestore_api_internal, database_string_internal,
                   rpc_metadata_internal>>
    /\ UNCHANGED <<optionVars, pathVars, concVars>>

\* A write (set, update, delete) is queued on the transaction.
Transaction_add_write ==
    /\ write_pbs < MaxWrites
    /\ write_pbs' = write_pbs + 1
    /\ UNCHANGED <<gen_state, references, field_paths, transaction,
                   document_paths, reference_map, response_iterator, requests,
                   yielded, gen_error, firestore_api_internal,
                   database_string_internal, rpc_metadata_internal>>
    /\ UNCHANGED <<optionVars, pathVars, concVars>>

GetAllInit ==
    /\ gen_state = "none"
    /\ references = None
    /\ field_paths = None
    /\ transaction = None
    /\ write_pbs = 0
    /\ document_paths = None
    /\ reference_map = None
    /\ response_iterator = None
    /\ requests = <<>>
    /\ yielded = <<>>
    /\ gen_error = None
    /\ firestore_api_internal = None
    /\ database_string_internal = None
    /\ rpc_metadata_internal = None


OptionIdle ==
    /\ opt_state = "idle"
    /\ kwargs = None
    /\ option = None
    /\ opt_error = None
    /\ write_pb = None
    /\ no_create_msg = None

PathIdle == resolved = <<>>

\* The two concurrent get_all calls of the concurrency scenario.
CallIds == {1, 2}

\* The frame of a generator that get_all has not created yet.
IdleCall ==
    [pc |-> "none", references |-> None, document_paths |-> None,
     reference_map |-> None, api |-> None, db_string |-> None,
     db_caller |-> "", prefix |-> None,
     metadata |-> None, request |-> None, response_iterator |-> None,
     yielded |-> <<>>, error |-> None, turns |-> 0]

ConcIdle == calls = [c \in CallIds |-> IdleCall]

(***************************************************************************)
(* The batch retrieval: one client, one transaction, one get_all call.     *)
(***************************************************************************)
Init == GetAllInit /\ OptionIdle /\ PathIdle /\ ConcIdle

Next ==
    \/ \E refs \in ReferenceLists, fps \in FieldPathArgs, txn \in TransactionArgs :
          Client_get_all(refs, fps, txn)
    \/ Generator_start
    \/ Generator_resume
    \/ Transaction_add_write

Spec == Init /\ [][Next]_vars


(***************************************************************************)
(* Properties of the batch retrieval.                                      *)
(***************************************************************************)
\* The number of responses the generator has taken from the stream.
Consumed == IF response_iterator = None THEN 0 ELSE response_iterator.pos

\* The k-th response of the stream.
Unit(k) == response_iterator.items[k]

\* out is what a response stands for: None for a missing document, a snapshot
\* of the named document for a found one; a malformed response has no output.
OutputOf(out, unit) ==
    \/ unit.result = "missing" /\ out = None
    \/ /\ unit.result = "found"
       /\ out # None
       /\ out.type = "DocumentSnapshot"
       /\ out.exists
       /\ out.reference._document_path = unit.found.name

\* C1: while the transaction given to get_all has queued writes, no step
\* sends a batch_get_documents request, and the step that starts the body of
\* the generator ends it with the read-after-write error.
C1_ReadAfterWriteBeforeRequest ==
    [][(transaction # None /\ write_pbs > 0) =>
          /\ requests' = requests
          /\ (gen_state = "created" /\ gen_state' # "created") =>
                (gen_state' = "raised" /\ gen_error' = ReadAfterWriteError)]_vars

C1_Witness ==
    /\ gen_state = "raised"
    /\ gen_error = ReadAfterWriteError
    /\ transaction = TheTransaction
    /\ write_pbs > 0
    /\ requests = <<>>

\* C2: as long as no error was raised, the generator has yielded exactly one
\* element per response taken from the stream, the k-th element standing for
\* the k-th response delivered, and once it has finished it has yielded as
\* many elements as the stream has responses, whatever references were asked.
C2_OneOutputPerResponseInDeliveryOrder ==
    (gen_error = None /\ response_iterator # None) =>
        /\ Len(yielded) = response_iterator.pos
        /\ \A k \in 1..Len(yielded) : OutputOf(yielded[k], Unit(k))
        /\ gen_state = "finished" => Len(yielded) = Len(response_iterator.items)

\* References alice, bob; the transport answers missing(bob), found(alice).
C2_Witness ==
    /\ gen_state = "finished"
    /\ Len(references) = 2
    /\ references[1]._document_path = DocumentPath("users/alice")
    /\ references[2]._document_path = DocumentPath("users/bob")
    /\ Len(response_iterator.items) = 2
    /\ Unit(1).result = "missing"
    /\ Unit(1).missing = DocumentPath("users/bob")
    /\ Unit(2).result = "found"
    /\ Unit(2).found.name = DocumentPath("users/alice")
    /\ Len(yielded) = 2
    /\ yielded[1] = None
    /\ yielded[2] # None

\* C3: a found response whose document path is not a key of reference_map
\* ends the generator with the ValueError that names the path, and no element
\* is yielded for it.
C3_UnrequestedFoundRaises ==
    \A k \in 1..Consumed :
        (Unit(k).result = "found" /\ Unit(k).found.name \notin DOMAIN reference_map)
        => /\ k = Consumed
           /\ gen_state = "raised"
           /\ gen_error = ValueError(<<_BAD_DOC_TEMPLATE, Unit(k).found.name>>)
           /\ Len(yielded) = k - 1

C3_Witness ==
    /\ gen_state = "raised"
    /\ Consumed = 2
    /\ Unit(2).result = "found"
    /\ Unit(2).found.name \notin DOMAIN reference_map
    /\ Len(yielded) = 1

\* C4: a response whose result is neither found nor missing (unset, or any
\* other field) ends the generator with a ValueError, and no element is
\* yielded for it.
C4_MalformedResultRaises ==
    \A k \in 1..Consumed :
        Unit(k).result \notin {"found", "missing"}
        => /\ k = Consumed
           /\ gen_state = "raised"
           /\ gen_error = ValueError(<<_BAD_RESULT_ERR>>)
           /\ Len(yielded) = k - 1

C4_Witness ==
    /\ gen_state = "raised"
    /\ Consumed >= 1
    /\ Unit(Consumed).result = "unset"
    /\ gen_error.type = "ValueError"

\* C5: for a missing response the generator yields None and raises nothing,
\* whether or not the missing path was asked for.
C5_MissingYieldsNone ==
    \A k \in 1..Consumed :
        Unit(k).result = "missing"
        => /\ Len(yielded) >= k
           /\ yielded[k] = None
           /\ k = Consumed => (gen_state # "raised" /\ gen_error = None)

C5_Witness ==
    /\ gen_state = "suspended"
    /\ Consumed >= 1
    /\ Unit(Consumed).result = "missing"
    /\ Unit(Consumed).missing \notin DOMAIN reference_map
    /\ yielded[Consumed] = None

\* data is what the raw fields encode: the same field names, each raw value
\* being the encoding of the decoded one.
Encodes(raw_fields, data) ==
    /\ DOMAIN data = DOMAIN raw_fields
    /\ \A f \in DOMAIN raw_fields :
          raw_fields[f] \in {[string_value |-> data[f]], [integer_value |-> data[f]]}

\* C11: for a found response whose path was asked for, the generator yields
\* a snapshot that exists, carries the reference reference_map holds for the
\* path, the data the document's fields encode, the read time of the
\* response and the create and update times of the document.
C11_FoundSnapshotCarriesResponse ==
    \A k \in 1..Consumed :
        (Unit(k).result = "found" /\ Unit(k).found.name \in DOMAIN reference_map)
        => /\ Len(yielded) >= k
           /\ yielded[k].type = "DocumentSnapshot"
           /\ yielded[k].exists = TRUE
           /\ yielded[k].reference = reference_map[Unit(k).found.name]
           /\ Encodes(Unit(k).found.fields, yielded[k].data)
           /\ yielded[k].read_time = Unit(k).read_time
           /\ yielded[k].create_time = Unit(k).found.create_time
           /\ yielded[k].update_time = Unit(k).found.update_time

\* A document with two fields, asked for twice: the snapshot carries the
\* second of the two references.
C11_Witness ==
    /\ gen_state = "suspended"
    /\ Consumed = 1
    /\ Len(references) = 2
    /\ references[1]._document_path = references[2]._document_path
    /\ Unit(1).result = "found"
    /\ Unit(1).found.name = references[2]._document_path
    /\ DOMAIN Unit(1).found.fields = {"name", "age"}
    /\ yielded[1].reference = references[2]
    /\ yielded[1].data = [name |-> "Bob", age |-> 7]

\* C13: once the body of get_all has run _reference_info, document_paths
\* holds the path of every reference given, in the order given and with
\* duplicates kept, reference_map has exactly the distinct paths as keys,
\* each with the last reference given for it, and the path list is what the
\* request carries.
C13_ReferenceInfoKeepsOrderAndLastWins ==
    gen_state \notin {"none", "created"} =>
        /\ Len(document_paths) = Len(references)
        /\ \A i \in DOMAIN references :
              document_paths[i] = references[i]._document_path
        /\ DOMAIN reference_map =
              {references[i]._document_path : i \in DOMAIN references}
        /\ \A p \in DOMAIN reference_map :
              \E i \in DOMAIN references :
                 /\ references[i]._document_path = p
                 /\ reference_map[p] = references[i]
                 /\ \A j \in DOMAIN references :
                       j > i => references[j]._document_path # p
        /\ requests # <<>> => requests[1].documents = document_paths

\* The references A, B, A: three paths on the wire, two keys in the map.
C13_Witness ==
    /\ gen_state \notin {"none", "created"}
    /\ Len(references) = 3
    /\ references[1]._document_path = references[3]._document_path
    /\ references[1]._document_path # references[2]._document_path
    /\ requests # <<>>
    /\ Len(requests[1].documents) = 3
    /\ Cardinality(DOMAIN reference_map) = 2
    /\ reference_map[references[1]._document_path] = references[3]


(***************************************************************************)
(* Client.write_option and the write options.                              *)
(***************************************************************************)
Bool(b) == [type |-> "bool", b |-> b]
Timestamp(seconds) == [type |-> "Timestamp", seconds |-> seconds]

Bools == {Bool(TRUE), Bool(FALSE)}
Timestamps == {Timestamp(1), Timestamp(2)}

\* The keyword names a caller may pass to write_option, and their values.
KeywordNames == {"create_if_missing", "last_update_time", "exists", "merge"}

KeywordValues(name) == IF name = "last_update_time" THEN Timestamps ELSE Bools

\* The keyword dictionaries: any subset of the names, each with a value.
KeywordArgs ==
    UNION {{kw \in [names -> Bools \cup Timestamps] :
                \A n \in names : kw[n] \in KeywordValues(n)} :
           names \in SUBSET KeywordNames}

\* types.Precondition: the oneof condition_type holds exists, update_time or
\* nothing.
NoPrecondition == [condition_type |-> "unset"]
PreconditionExists(exists) == [condition_type |-> "exists", exists |-> exists]
PreconditionUpdateTime(update_time) ==
    [condition_type |-> "update_time", update_time |-> update_time]

Preconditions ==
    {NoPrecondition}
    \cup {PreconditionExists(b) : b \in Bools}
    \cup {PreconditionUpdateTime(t) : t \in Timestamps}

\* types.Write: the operation it carries and its current_document.
WritePbs ==
    [operation : {"update", "delete"}, current_document : Preconditions]

\* write_pb.current_document.CopyFrom(current_doc)
CopyFrom(pb, current_doc) == [pb EXCEPT !.current_document = current_doc]

\* The values modify_write may get as no_create_msg: None (also when it is
\* not passed), the empty string, a message.
NoCreateMsgs == {None, Str(""), Str("Cannot use create_if_missing with delete")}

LastUpdateOption(last_update_time) ==
    [type |-> "LastUpdateOption", _last_update_time |-> last_update_time]
CreateIfMissingOption(create_if_missing) ==
    [type |-> "CreateIfMissingOption", _create_if_missing |-> create_if_missing]
ExistsOption(exists) == [type |-> "ExistsOption", _exists |-> exists]

\* A variant of write_option without the check of the number of keywords.
write_option_any_count(kw) ==
    IF DOMAIN kw = {} THEN [raised |-> TRUE, error |-> TypeError(<<_BAD_OPTION_ERR>>)]
    ELSE LET name == CHOOSE n \in DOMAIN kw : TRUE
             value == kw[name]
         IN IF name = "create_if_missing"
            THEN [raised |-> FALSE, value |-> CreateIfMissingOption(value)]
            ELSE IF name = "last_update_time"
            THEN [raised |-> FALSE, value |-> LastUpdateOption(value)]
            ELSE IF name = "exists"
            THEN [raised |-> FALSE, value |-> ExistsOption(value)]
            ELSE [raised |-> TRUE,
                  error |-> TypeError(<<_BAD_OPTION_ERR, name>>)]

\* Client.write_option(**kwargs)
write_option(kw) ==
    IF Cardinality(DOMAIN kw) # 1
    THEN [raised |-> TRUE, error |-> TypeError(<<_BAD_OPTION_ERR>>)]
    ELSE LET name == CHOOSE n \in DOMAIN kw : TRUE
             value == kw[name]
         IN IF name = "create_if_missing"
            THEN [raised |-> FALSE, value |-> CreateIfMissingOption(value)]
            ELSE IF name = "last_update_time"
            THEN [raised |-> FALSE, value |-> LastUpdateOption(value)]
            ELSE IF name = "exists"
            THEN [raised |-> FALSE, value |-> ExistsOption(value)]
            ELSE [raised |-> TRUE,
                  error |-> TypeError(<<_BAD_OPTION_ERR, name>>)]

\* A variant of LastUpdateOption.modify_write that takes no_create_msg as
\* CreateIfMissingOption does.
LastUpdateOption_modify_write_forbidding(self, pb, msg) ==
    IF msg # None THEN [raised |-> TRUE, error |-> ValueError(<<msg>>)]
    ELSE [raised |-> FALSE,
          write_pb |-> CopyFrom(pb, PreconditionUpdateTime(self._last_update_time))]

\* LastUpdateOption.modify_write(write_pb, **unused_kwargs)
LastUpdateOption_modify_write(self, pb, msg) ==
    LET current_doc == PreconditionUpdateTime(self._last_update_time)
    IN [raised |-> FALSE, write_pb |-> CopyFrom(pb, current_doc)]

\* A variant of CreateIfMissingOption.modify_write that tests the message
\* for truth ("if no_create_msg:").
CreateIfMissingOption_modify_write_truthy(self, pb, msg) ==
    IF msg # None /\ msg # Str("")
    THEN [raised |-> TRUE, error |-> ValueError(<<msg>>)]
    ELSE IF ~self._create_if_missing.b
    THEN [raised |-> FALSE, write_pb |-> CopyFrom(pb, PreconditionExists(Bool(TRUE)))]
    ELSE [raised |-> FALSE, write_pb |-> pb]

\* A variant of CreateIfMissingOption.modify_write with the test of the
\* option's value inverted.
CreateIfMissingOption_modify_write_inverted(self, pb, msg) ==
    IF msg # None THEN [raised |-> TRUE, error |-> ValueError(<<msg>>)]
    ELSE IF self._create_if_missing.b
    THEN [raised |-> FALSE, write_pb |-> CopyFrom(pb, PreconditionExists(Bool(TRUE)))]
    ELSE [raised |-> FALSE, write_pb |-> pb]

\* CreateIfMissingOption.modify_write(write_pb, no_create_msg=None)
CreateIfMissingOption_modify_write(self, pb, msg) ==
    IF msg # None THEN [raised |-> TRUE, error |-> ValueError(<<msg>>)]
    ELSE IF ~self._create_if_missing.b
    THEN LET current_doc == PreconditionExists(Bool(TRUE))
         IN [raised |-> FALSE, write_pb |-> CopyFrom(pb, current_doc)]
    ELSE [raised |-> FALSE, write_pb |-> pb]

\* ExistsOption.modify_write(write_pb, **unused_kwargs)
ExistsOption_modify_write(self, pb, msg) ==
    LET current_doc == PreconditionExists(self._exists)
    IN [raised |-> FALSE, write_pb |-> CopyFrom(pb, current_doc)]

\* The call Client.write_option(**kw).
Client_write_option(kw) ==
    /\ opt_state = "idle"
    /\ kwargs' = kw
    /\ LET made == write_option(kw)
       IN IF made.raised
          THEN opt_state' = "failed" /\ opt_error' = made.error /\ option' = None
          ELSE opt_state' = "built" /\ opt_error' = None /\ option' = made.value
    /\ UNCHANGED <<write_pb, no_create_msg>>
    /\ UNCHANGED <<getAllVars, pathVars, concVars>>

\* The call option.modify_write(write_pb, no_create_msg=msg) has returned or
\* raised.
ModifyWriteDone(msg, done) ==
    /\ no_create_msg' = msg
    /\ IF done.raised
       THEN opt_state' = "raised" /\ opt_error' = done.error /\ write_pb' = write_pb
       ELSE opt_state' = "applied" /\ opt_error' = None /\ write_pb' = done.write_pb
    /\ UNCHANGED <<kwargs, option>>
    /\ UNCHANGED <<getAllVars, pathVars, concVars>>

LastUpdateOption_modify(msg) ==
    /\ opt_state = "built"
    /\ option.type = "LastUpdateOption"
    /\ ModifyWriteDone(msg, LastUpdateOption_modify_write(option, write_pb, msg))

CreateIfMissingOption_modify(msg) ==
    /\ opt_state = "built"
    /\ option.type = "CreateIfMissingOption"
    /\ ModifyWriteDone(msg, CreateIfMissingOption_modify_write(option, write_pb, msg))

ExistsOption_modify(msg) ==
    /\ opt_state = "built"
    /\ option.type = "ExistsOption"
    /\ ModifyWriteDone(msg, ExistsOption_modify_write(option, write_pb, msg))

\* The write options: one Write protobuf, one write_option call, one
\* modify_write call on the option it returned.
OptionInit ==
    /\ opt_state = "idle"
    /\ kwargs = None
    /\ option = None
    /\ opt_error = None
    /\ write_pb \in WritePbs
    /\ no_create_msg = None

InitOption == GetAllInit /\ OptionInit /\ PathIdle /\ ConcIdle

NextOption ==
    \/ \E kw \in KeywordArgs : Client_write_option(kw)
    \/ \E msg \in NoCreateMsgs : LastUpdateOption_modify(msg)
    \/ \E msg \in NoCreateMsgs : CreateIfMissingOption_modify(msg)
    \/ \E msg \in NoCreateMsgs : ExistsOption_modify(msg)

SpecOption == InitOption /\ [][NextOption]_vars


(***************************************************************************)
(* Properties of the write options.                                        *)
(***************************************************************************)
AllowedSelectors == {"create_if_missing", "last_update_time", "exists"}

\* The option write_option is to return for one selector and its value.
VariantFor(name, value) ==
    IF name = "create_if_missing"
    THEN [type |-> "CreateIfMissingOption", _create_if_missing |-> value]
    ELSE IF name = "last_update_time"
    THEN [type |-> "LastUpdateOption", _last_update_time |-> value]
    ELSE [type |-> "ExistsOption", _exists |-> value]

\* C6: write_option returns an option if and only if exactly one selector
\* is given and it is one of the three allowed ones; the option is then the
\* variant of that selector with the value given; in every other case (no
\* selector, several, an unknown one) it raises the TypeError whose message
\* lists the allowed selectors.
C6_WriteOptionExactlyOneSelector ==
    opt_state # "idle" =>
        LET ok == Cardinality(DOMAIN kwargs) = 1 /\ DOMAIN kwargs \subseteq AllowedSelectors
        IN /\ (option # None) <=> ok
           /\ ok => \A n \in DOMAIN kwargs : option = VariantFor(n, kwargs[n])
           /\ ~ok => /\ opt_state = "failed"
                     /\ opt_error.type = "TypeError"
                     /\ opt_error.args[1] = _BAD_OPTION_ERR

C6_Witness ==
    /\ opt_state = "failed"
    /\ DOMAIN kwargs = {"create_if_missing", "exists"}
    /\ opt_error = TypeError(<<_BAD_OPTION_ERR>>)

\* A step in which modify_write is called on a CreateIfMissingOption.
CreateIfMissingStep ==
    /\ opt_state = "built"
    /\ option.type = "CreateIfMissingOption"
    /\ opt_state' # "built"

\* The message is a string with at least one character.
NonEmptyMsg(msg) == msg # None /\ msg # Str("")

\* C7 as stated: CreateIfMissingOption.modify_write raises exactly when the
\* forbid message is non-empty.
C7_RaisesExactlyWhenMsgNonEmpty ==
    [][CreateIfMissingStep =>
          ((opt_state' = "raised") <=> NonEmptyMsg(no_create_msg'))]_vars

\* C7, amended: CreateIfMissingOption.modify_write raises exactly when a
\* forbid message is passed (is not None), be it empty or not, for both
\* values of the option; the ValueError carries the message and the Write
\* is left as it was.
C7_RaisesExactlyWhenMsgPassed ==
    [][CreateIfMissingStep =>
          /\ (opt_state' = "raised") <=> (no_create_msg' # None)
          /\ opt_state' = "raised" =>
                /\ opt_error' = ValueError(<<no_create_msg'>>)
                /\ write_pb' = write_pb]_vars

C7_Witness ==
    /\ opt_state = "raised"
    /\ option = CreateIfMissingOption(Bool(TRUE))
    /\ no_create_msg = Str("")
    /\ opt_error = ValueError(<<Str("")>>)

\* C8 as stated: without a non-empty forbid message, an option of false
\* leaves the Write with the precondition exists=true and an option of true
\* leaves the Write as it was.
C8_NotForbiddenWithoutNonEmptyMsg ==
    [][(CreateIfMissingStep /\ ~NonEmptyMsg(no_create_msg')) =>
          IF option._create_if_missing.b
          THEN write_pb' = write_pb
          ELSE write_pb'.current_document = PreconditionExists(Bool(TRUE))]_vars

\* C8, amended: when no forbid message is passed (None), modify_write
\* returns; an option of false leaves the Write with the precondition
\* exists=true in place of any it had and nothing else changed, an option of
\* true leaves the Write exactly as it was.
C8_NotForbiddenWithoutMsg ==
    [][(CreateIfMissingStep /\ no_create_msg' = None) =>
          /\ opt_state' = "applied"
          /\ IF option._create_if_missing.b
             THEN write_pb' = write_pb
             ELSE /\ write_pb'.current_document = PreconditionExists(Bool(TRUE))
                  /\ write_pb'.operation = write_pb.operation]_vars

C8_Witness ==
    /\ opt_state = "applied"
    /\ option = CreateIfMissingOption(Bool(FALSE))
    /\ no_create_msg = None
    /\ write_pb.current_document = PreconditionExists(Bool(TRUE))
    /\ write_pb.operation = "delete"

\* C9: modify_write of a LastUpdateOption or an ExistsOption never raises,
\* whatever is passed as forbid message: the Write ends with the precondition
\* update_time == t, or exists == b (b true or false), in place of any it
\* had.
C9_LastUpdateAndExistsIgnoreMsg ==
    [][(opt_state = "built" /\ opt_state' # "built"
        /\ option.type \in {"LastUpdateOption", "ExistsOption"}) =>
          /\ opt_state' = "applied"
          /\ opt_error' = None
          /\ write_pb'.operation = write_pb.operation
          /\ option.type = "LastUpdateOption" =>
                write_pb'.current_document =
                    [condition_type |-> "update_time",
                     update_time |-> option._last_update_time]
          /\ option.type = "ExistsOption" =>
                write_pb'.current_document =
                    [condition_type |-> "exists", exists |-> option._exists]]_vars

C9_Witness ==
    /\ opt_state = "applied"
    /\ option = ExistsOption(Bool(FALSE))
    /\ NonEmptyMsg(no_create_msg)
    /\ write_pb.current_document = PreconditionExists(Bool(FALSE))


(***************************************************************************)
(* Client.collection and Client.document. A path string is the sequence of *)
(* its characters here, so that splitting it is computed.                  *)
(***************************************************************************)
\* _helpers.DOCUMENT_PATH_DELIMITER
DOCUMENT_PATH_DELIMITER == "/"

Chars == {"a", DOCUMENT_PATH_DELIMITER}

PathStrings == SeqsUpTo(Chars, MaxStrLen)

\* The argument tuples of a call collection(*args) or document(*args).
ArgTuples == SeqsUpTo(PathStrings, MaxArgs)

\* str.split(sep): the pieces between the separators, empty ones included;
\* a string without separator gives the string itself as its one piece.
RECURSIVE SplitLoop(_, _, _, _, _)
SplitLoop(str, sep, i, pieces, piece) ==
    IF i > Len(str) THEN Append(pieces, piece)
    ELSE IF str[i] = sep
    THEN SplitLoop(str, sep, i + 1, Append(pieces, piece), <<>>)
    ELSE SplitLoop(str, sep, i + 1, pieces, Append(piece, str[i]))

split(str, sep) == SplitLoop(str, sep, 1, <<>>, <<>>)

\* A variant of collection()'s path computation that splits the first
\* argument however many arguments there are.
CollectionPath_always_split(collection_path) ==
    IF Len(collection_path) >= 1
    THEN split(collection_path[1], DOCUMENT_PATH_DELIMITER)
    ELSE collection_path

\* collection(), lines 173-176: the segments handed to the reference.
CollectionPath(collection_path) ==
    IF Len(collection_path) = 1
    THEN split(collection_path[1], DOCUMENT_PATH_DELIMITER)
    ELSE collection_path

\* document(), lines 211-214: the segments handed to the reference.
DocumentSegments(document_path) ==
    IF Len(document_path) = 1
    THEN split(document_path[1], DOCUMENT_PATH_DELIMITER)
    ELSE document_path

\* CollectionReference(*path, client=self) and
\* DocumentReference(*path, client=self): what the constructor is given.
CollectionReference(path) == [type |-> "CollectionReference", _path |-> path]
DocumentReferenceOf(path) == [type |-> "DocumentReference", _path |-> path]

\* client.collection(*collection_path)
Client_collection(collection_path) ==
    /\ resolved' = Append(resolved,
          [method |-> "collection", args |-> collection_path,
           returned |-> CollectionReference(CollectionPath(collection_path))])
    /\ UNCHANGED <<getAllVars, optionVars, concVars>>

\* client.document(*document_path)
Client_document(document_path) ==
    /\ resolved' = Append(resolved,
          [method |-> "document", args |-> document_path,
           returned |-> DocumentReferenceOf(DocumentSegments(document_path))])
    /\ UNCHANGED <<getAllVars, optionVars, concVars>>

\* A caller's view of a path: the segments, none holding a delimiter, that
\* give the string when written one after the other with "/" in between.
RECURSIVE Joined(_)
Joined(segments) ==
    IF Len(segments) = 1 THEN segments[1]
    ELSE segments[1] \o <<DOCUMENT_PATH_DELIMITER>> \o Joined(Tail(segments))

NoDelimiter(str) == \A i \in DOMAIN str : str[i] # DOCUMENT_PATH_DELIMITER

SegmentTuples ==
    {segs \in SeqsUpTo({str \in PathStrings : NoDelimiter(str)}, MaxStrLen + 1) :
        segs # <<>>}

IsSegmentsOf(segments, str) ==
    /\ segments # <<>>
    /\ \A i \in DOMAIN segments : NoDelimiter(segments[i])
    /\ Joined(segments) = str

\* Path resolution: a first call with any arguments; when it was given one
\* string, a second call of the same method with the segments of that string
\* as separate arguments.
InitPath == GetAllInit /\ OptionIdle /\ PathIdle /\ ConcIdle

NextPath ==
    \/ \E args \in ArgTuples : resolved = <<>> /\ Client_collection(args)
    \/ \E args \in ArgTuples : resolved = <<>> /\ Client_document(args)
    \/ \E segs \in SegmentTuples :
          /\ Len(resolved) = 1
          /\ resolved[1].method = "collection"
          /\ Len(resolved[1].args) = 1
          /\ IsSegmentsOf(segs, resolved[1].args[1])
          /\ Client_collection(segs)
    \/ \E segs \in SegmentTuples :
          /\ Len(resolved) = 1
          /\ resolved[1].method = "document"
          /\ Len(resolved[1].args) = 1
          /\ IsSegmentsOf(segs, resolved[1].args[1])
          /\ Client_document(segs)

SpecPath == InitPath /\ [][NextPath]_vars

(***************************************************************************)
(* Properties of the path resolution.                                      *)
(***************************************************************************)
\* C10: a path given as one delimited string and the same path given as its
\* segments, one argument each, hand the same segment sequence to the
\* reference, for collection() and document() alike; a single argument is
\* split on "/" (joining the segments handed over gives the string back and
\* no segment holds a "/"), any other number of arguments is handed over as
\* it is.
C10_StringAndSegmentsResolveAlike ==
    /\ Len(resolved) = 2 =>
          /\ resolved[1].method = resolved[2].method
          /\ resolved[1].returned = resolved[2].returned
    /\ \A k \in DOMAIN resolved :
          LET call == resolved[k] IN
          IF Len(call.args) = 1
          THEN IsSegmentsOf(call.returned._path, call.args[1])
          ELSE call.returned._path = call.args

\* "a/" as a string, then as the segments "a" and "".
C10_Witness ==
    /\ Len(resolved) = 2
    /\ resolved[1].method = "document"
    /\ resolved[1].args = << <<"a", "/">> >>
    /\ resolved[2].args = << <<"a">>, <<>> >>
    /\ resolved[2].returned._path = << <<"a">>, <<>> >>


(***************************************************************************)
(* Two get_all calls on one client, their generators run by two threads.   *)
(* A thread may be preempted between any two accesses to the client's      *)
(* attributes, so every lazy getter is a read (the test for None), a write *)
(* (when the test found None) and a read (the return).                     *)
(***************************************************************************)
ConcReferenceLists == {refs \in ReferenceLists : Len(refs) <= MaxConcRefs}

\* The well-formed responses with a one-field document.
ConcResponses ==
    {r \in FoundResponses : DOMAIN r.found.fields = {"name"}} \cup MissingResponses

ConcResponseStreams == SeqsUpTo(ConcResponses, MaxConcResponses)

\* The objects that hold the locations a call touches: the client, and the
\* frame of each generator (its local variables).
Frame(c) == IF c = 1 THEN "frame of call 1" ELSE "frame of call 2"

Access(obj, attr, kind) == [obj |-> obj, attr |-> attr, kind |-> kind]

Other(c) == CHOOSE d \in CallIds : d # c

\* A variant in which reference_map is kept in one place for all calls: a
\* call reads the map the other call built, once there is one.
MapFrame_shared(c) ==
    IF calls[Other(c)].pc \notin {"none", "created"} THEN Other(c) ELSE c

\* The frame whose reference_map the loop of call c passes to
\* _parse_batch_get: reference_map is a local variable of get_all.
MapFrame(c) == c

\* The locations the next step of call c reads and writes.
StepAccesses(c) ==
    LET pc == calls[c].pc IN
    IF pc = "created"
    THEN {Access(Frame(c), "document_paths", "write"),
          Access(Frame(c), "reference_map", "write")}
    ELSE IF pc \in {"api_check", "api_return"}
    THEN {Access("client", "_firestore_api_internal", "read")}
    ELSE IF pc = "api_make"
    THEN {Access("client", "_firestore_api_internal", "write")}
    ELSE IF pc \in {"db_check", "db_return"}
    THEN {Access("client", "_database_string_internal", "read")}
    ELSE IF pc = "db_make"
    THEN {Access("client", "_database_string_internal", "write")}
    ELSE IF pc \in {"md_check", "md_return"}
    THEN {Access("client", "_rpc_metadata_internal", "read")}
    ELSE IF pc = "md_make"
    THEN {Access("client", "_rpc_metadata_internal", "write")}
    ELSE IF pc = "send"
    THEN {Access(Frame(c), "document_paths", "read"),
          Access(Frame(c), "response_iterator", "write")}
    ELSE IF pc = "loop"
    THEN {Access(Frame(c), "response_iterator", "read"),
          Access(Frame(c), "response_iterator", "write"),
          Access(Frame(MapFrame(c)), "reference_map", "read")}
    ELSE {}

\* client.get_all(references) is called: the generator is created.
Conc_get_all(c, refs) ==
    /\ calls[c].pc = "none"
    /\ calls' = [calls EXCEPT ![c].pc = "created", ![c].references = refs]
    /\ UNCHANGED <<getAllVars, optionVars, pathVars>>

\* Lines 331-332: the locals document_paths, reference_map and mask.
Conc_start(c) ==
    /\ calls[c].pc = "created"
    /\ LET info == _reference_info(calls[c].references)
       IN calls' = [calls EXCEPT ![c].pc = "api_check",
                                 ![c].document_paths = info[1],
                                 ![c].reference_map = info[2]]
    /\ UNCHANGED <<getAllVars, optionVars, pathVars>>

\* The getter _firestore_api, lines 100-103.
Conc_firestore_api(c) ==
    /\ calls[c].pc \in {"api_check", "api_make", "api_return"}
    /\ IF calls[c].pc = "api_check"
       THEN /\ calls' = [calls EXCEPT ![c].pc =
                   IF firestore_api_internal = None THEN "api_make"
                   ELSE "api_return"]
            /\ UNCHANGED firestore_api_internal
       ELSE IF calls[c].pc = "api_make"
       THEN /\ firestore_api_internal' = _make_firestore_api
            /\ calls' = [calls EXCEPT ![c].pc = "api_return"]
       ELSE /\ calls' = [calls EXCEPT ![c].pc = "db_check",
                                      ![c].db_caller = "get_all",
                                      ![c].api = firestore_api_internal]
            /\ UNCHANGED firestore_api_internal
    /\ UNCHANGED <<gen_state, references, field_paths, transaction, write_pbs,
                   document_paths, reference_map, response_iterator, requests,
                   yielded, gen_error, database_string_internal,
                   rpc_metadata_internal>>
    /\ UNCHANGED <<optionVars, pathVars>>

\* The getter _database_string, lines 121-128, called by get_all (line 334)
\* and by the getter _rpc_metadata (line 140).
Conc_database_string(c) ==
    /\ calls[c].pc \in {"db_check", "db_make", "db_return"}
    /\ IF calls[c].pc = "db_check"
       THEN /\ calls' = [calls EXCEPT ![c].pc =
                   IF database_string_internal = None THEN "db_make"
                   ELSE "db_return"]
            /\ UNCHANGED database_string_internal
       ELSE IF calls[c].pc = "db_make"
       THEN /\ database_string_internal' =
                   Str(database_root_path(Project, DEFAULT_DATABASE))
            /\ calls' = [calls EXCEPT ![c].pc = "db_return"]
       ELSE /\ calls' =
                   IF calls[c].db_caller = "get_all"
                   THEN [calls EXCEPT ![c].pc = "md_check",
                                      ![c].db_string = database_string_internal]
                   ELSE [calls EXCEPT ![c].pc = "md_make",
                                      ![c].prefix = database_string_internal]
            /\ UNCHANGED database_string_internal
    /\ UNCHANGED <<gen_state, references, field_paths, transaction, write_pbs,
                   document_paths, reference_map, response_iterator, requests,
                   yielded, gen_error, firestore_api_internal,
                   rpc_metadata_internal>>
    /\ UNCHANGED <<optionVars, pathVars>>

\* The getter _rpc_metadata, lines 138-142.
Conc_rpc_metadata(c) ==
    /\ calls[c].pc \in {"md_check", "md_make", "md_return"}
    /\ IF calls[c].pc = "md_check"
       THEN /\ calls' =
                   IF rpc_metadata_internal = None
                   THEN [calls EXCEPT ![c].pc = "db_check",
                                      ![c].db_caller = "_rpc_metadata"]
                   ELSE [calls EXCEPT ![c].pc = "md_return"]
            /\ UNCHANGED rpc_metadata_internal
       ELSE IF calls[c].pc = "md_make"
       THEN /\ rpc_metadata_internal' = metadata_with_prefix(calls[c].prefix)
            /\ calls' = [calls EXCEPT ![c].pc = "md_return"]
       ELSE /\ calls' = [calls EXCEPT ![c].pc = "send",
                                      ![c].metadata = rpc_metadata_internal]
            /\ UNCHANGED rpc_metadata_internal
    /\ UNCHANGED <<gen_state, references, field_paths, transaction, write_pbs,
                   document_paths, reference_map, response_iterator, requests,
                   yielded, gen_error, firestore_api_internal,
                   database_string_internal>>
    /\ UNCHANGED <<optionVars, pathVars>>

\* Lines 333-336: batch_get_documents is called with the values the getters
\* returned; the transport answers with a stream of the call's own.
Conc_send(c) ==
    /\ calls[c].pc = "send"
    /\ \E stream \in ConcResponseStreams :
          LET call == BatchGetCall(calls[c].db_string, calls[c].document_paths,
                                   _get_doc_mask(None),
                                   get_transaction_id(None, 0),
                                   calls[c].metadata)
          IN calls' = [calls EXCEPT
                ![c].pc = "loop",
                ![c].request = call.request,
                ![c].response_iterator = [items |-> stream, pos |-> 0]]
    /\ UNCHANGED <<getAllVars, optionVars, pathVars>>

\* Lines 338-339: one turn of the loop, up to the yield, the exception or the
\* end of the stream.
Conc_next(c) ==
    /\ calls[c].pc = "loop"
    /\ LET step == ForLoopStep(calls[c].response_iterator,
                               calls[MapFrame(c)].reference_map,
                               calls[c].yielded)
       IN calls' = [calls EXCEPT
              ![c].pc = IF step.state = "suspended" THEN "loop" ELSE step.state,
              ![c].response_iterator = step.iterator,
              ![c].yielded = step.yielded,
              ![c].error = step.error,
              ![c].turns = calls[c].turns + 1]
    /\ UNCHANGED <<getAllVars, optionVars, pathVars>>

InitConc == GetAllInit /\ OptionIdle /\ PathIdle /\ ConcIdle

NextConc ==
    \E c \in CallIds :
        \/ \E refs \in ConcReferenceLists : Conc_get_all(c, refs)
        \/ Conc_start(c)
        \/ Conc_firestore_api(c)
        \/ Conc_database_string(c)
        \/ Conc_rpc_metadata(c)
        \/ Conc_send(c)
        \/ Conc_next(c)

SpecConc == InitConc /\ [][NextConc]_vars


(***************************************************************************)
(* Properties of concurrent get_all calls.                                 *)
(***************************************************************************)
\* The Client attributes the lazy getters fill in on first use.
LazyAttributes ==
    {"_firestore_api_internal", "_database_string_internal",
     "_rpc_metadata_internal"}

\* Two accesses to one location, one of them a write.
Conflict(a, b) ==
    /\ a.obj = b.obj
    /\ a.attr = b.attr
    /\ (a.kind = "write" \/ b.kind = "write")

\* What a generator run alone on a fresh client has done after n turns of
\* its loop on the given stream.
RECURSIVE AloneRun(_, _, _, _)
AloneRun(iterator, map, out, n) ==
    IF n = 0
    THEN [state |-> "suspended", iterator |-> iterator, yielded |-> out,
          error |-> None]
    ELSE LET step == ForLoopStep(iterator, map, out)
         IN IF step.state # "suspended" THEN step
            ELSE AloneRun(step.iterator, map, step.yielded, n - 1)

\* The request a call alone on a fresh client sends for these paths.
AloneRequest(paths) ==
    BatchGetCall(_database_string(None), paths, _get_doc_mask(None),
                 get_transaction_id(None, 0),
                 _rpc_metadata(None, _database_string(None))).request

\* Every call has sent the request and yielded the elements it sends and
\* yields when it runs alone on the same references and the same stream.
OutputsAsAlone ==
    \A c \in CallIds :
        calls[c].pc \in {"loop", "finished", "raised"} =>
            LET info == _reference_info(calls[c].references)
                alone == AloneRun(
                    [items |-> calls[c].response_iterator.items, pos |-> 0],
                    info[2], <<>>, calls[c].turns)
            IN /\ calls[c].request = AloneRequest(info[1])
               /\ calls[c].yielded = alone.yielded
               /\ calls[c].error = alone.error
               /\ calls[c].response_iterator = alone.iterator

====
